---- MODULE Spec2Model ----
(***************************************************************************)
(* Model of the basis pipeline of crypto-basis-trading:                    *)
(*   resample.py  process_and_save_daily_basis, load_full_basis            *)
(*   data.py      download_binance_btcusdt (the aggTrades pagination loop) *)
(*                                                                         *)
(* Time is counted in ticks; SubPerSec ticks make one second.  A timestamp *)
(* of a resampled series is the tick at which its second starts, as the    *)
(* label of a pandas '1s' bin is the instant of its left edge.  A calendar *)
(* date YYYYMMDD is a day number 1..MaxDay: file names that differ only in *)
(* a fixed-width date sort as their dates do.                              *)
(***************************************************************************)
EXTENDS Integers, Sequences, FiniteSets, TLC

\* ---- bounds of the model ----
MaxDay == 2        \* calendar days with raw files
SecPerDay == 2     \* seconds of one calendar day
SubPerSec == 2     \* ticks (sub-second instants) of one second
MaxSec == 3        \* seconds spanned by the trades given to the resampler alone
MaxPrice == 2      \* prices are 1..MaxPrice
MaxTrades == 2     \* trades given to the resampler alone
Limit == 2         \* trades of one aggTrades response ("limit": 1000, scaled)
DayMs == 3         \* milliseconds of the requested day of the download
MaxBook == 3       \* trades the exchange holds
MaxEarlier == 1    \* artifacts an earlier run left in PROCESSED_DIR

VARIABLES
    \* the resampler and the aligner on their own
    rpc, df, resampled, reresampled,
    \* the file system: RAW_DIR (dates of the files present) and PROCESSED_DIR
    \* (the artifacts this run wrote; the dates of those an earlier run left)
    raw_bitmex, raw_binance, processed, earlier,
    \* process_and_save_daily_basis
    pc, exc, bitmex_files, binance_files, i, saved_paths,
    futures, spot, daily_df, daily_dfs,
    \* load_full_basis
    loaded, full_basis,
    \* download_binance_btcusdt
    bpc, book, start, trades

rvars == <<rpc, df, resampled, reresampled>>
fsvars == <<raw_bitmex, raw_binance, processed, earlier>>
pvars == <<pc, exc, bitmex_files, binance_files, i, saved_paths,
           futures, spot, daily_df, daily_dfs>>
lvars == <<loaded, full_basis>>
bvars == <<bpc, book, start, trades>>
vars == <<rvars, fsvars, pvars, lvars, bvars>>

\* ---- helpers ----
Days == 1..MaxDay
Prices == 1..MaxPrice

\* float('nan'): the value of a bin without a trade, of a row missing on one side
NaN == 0 - 1

Max(S) == CHOOSE x \in S : \A y \in S : y <= x
Min(S) == CHOOSE x \in S : \A y \in S : x <= y

RECURSIVE Ascending(_)
\* Python's sorted() on a set of integers
Ascending(S) == IF S = {} THEN <<>> ELSE <<Min(S)>> \o Ascending(S \ {Min(S)})

RECURSIVE Descending(_)
\* the reverse of sorted()
Descending(S) == IF S = {} THEN <<>> ELSE <<Max(S)>> \o Descending(S \ {Max(S)})

RECURSIVE Flatten(_)
\* pd.concat of a list of frames: their rows, list order kept
Flatten(ss) == IF ss = <<>> THEN <<>> ELSE Head(ss) \o Flatten(Tail(ss))

Range(s) == {s[k] : k \in DOMAIN s}

\* ---- the resampler: Series.resample('1s').last().ffill() ----

\* Label a bin by the second after the trade (label='right')
MutFloor1s(t) == ((t \div SubPerSec) + 1) * SubPerSec
\* The 1-second bin of an instant: the start of its second
Floor1s(t) == (t \div SubPerSec) * SubPerSec

\* GroupBy.first(): the earliest trade of the bin instead of the latest
MutLastOfBin(d, b) ==
    LET in == {k \in DOMAIN d : Floor1s(d[k].timestamp) = b}
    IN  IF in = {} THEN NaN ELSE d[Min(in)].price
\* .last(): the price of the last row of the bin, NaN for a bin without rows
\* (every trade carries a price, so the last row is the last valid one)
LastOfBin(d, b) ==
    LET in == {k \in DOMAIN d : Floor1s(d[k].timestamp) = b}
    IN  IF in = {} THEN NaN ELSE d[Max(in)].price

\* .resample('1s').last(): one bin per second from the second of the first
\* row to the second of the last row (d is ordered by time)
ResampleLast(d) ==
    IF d = <<>> THEN <<>>
    ELSE LET lo == Floor1s(d[1].timestamp)
             hi == Floor1s(d[Len(d)].timestamp)
             n  == ((hi - lo) \div SubPerSec) + 1
         IN  [k \in 1..n |->
                 [timestamp |-> lo + (k - 1) * SubPerSec,
                  price |-> LastOfBin(d, lo + (k - 1) * SubPerSec)]]

\* .ffill(): a NaN takes the last value before it; a leading NaN stays
Ffill(s) ==
    [k \in DOMAIN s |->
        LET valid == {j \in 1..k : s[j].price # NaN}
        IN  [timestamp |-> s[k].timestamp,
             price |-> IF valid = {} THEN NaN ELSE s[Max(valid)].price]]

Resample1s(d) == Ffill(ResampleLast(d))

\* ---- the aligner: pd.concat([futures, spot], axis=1).dropna(), basis ----
TsSet(s) == {s[k].timestamp : k \in DOMAIN s}

ValueAt(s, t) ==
    IF t \in TsSet(s) THEN s[CHOOSE k \in DOMAIN s : s[k].timestamp = t].price
    ELSE NaN

\* axis=1 concat: the union of the two indexes, NaN where a side has no row
Concat(f, s) ==
    LET index == Ascending(TsSet(f) \cup TsSet(s))
    IN  [k \in DOMAIN index |->
            [timestamp |-> index[k],
             futures_price |-> ValueAt(f, index[k]),
             spot_price |-> ValueAt(s, index[k])]]

KeepRow(r) == r.futures_price # NaN /\ r.spot_price # NaN

\* .fillna(0) in place of .dropna(): every row of the union is kept
MutDropna(rows) ==
    [k \in DOMAIN rows |->
        [timestamp |-> rows[k].timestamp,
         futures_price |-> IF rows[k].futures_price = NaN THEN 0
                           ELSE rows[k].futures_price,
         spot_price |-> IF rows[k].spot_price = NaN THEN 0
                        ELSE rows[k].spot_price]]
\* .dropna(): rows with a NaN on either side are dropped
Dropna(rows) == SelectSeq(rows, KeepRow)

\* the difference taken the other way round
MutWithBasis(rows) ==
    [k \in DOMAIN rows |->
        [timestamp |-> rows[k].timestamp,
         futures_price |-> rows[k].futures_price,
         spot_price |-> rows[k].spot_price,
         basis |-> rows[k].spot_price - rows[k].futures_price]]
\* daily_df['basis'] = daily_df['futures_price'] - daily_df['spot_price']
WithBasis(rows) ==
    [k \in DOMAIN rows |->
        [timestamp |-> rows[k].timestamp,
         futures_price |-> rows[k].futures_price,
         spot_price |-> rows[k].spot_price,
         basis |-> rows[k].futures_price - rows[k].spot_price]]

DailyBasis(f, s) == WithBasis(Dropna(Concat(f, s)))

\* ---- inputs of the resampler on its own ----
TradeSet(ticks) == [timestamp : ticks, price : Prices]

TimeOrdered(d) == \A k \in 1..(Len(d) - 1) : d[k].timestamp <= d[k + 1].timestamp

\* trade tapes of at most n trades, ordered by time
Tapes(ticks, n) ==
    {d \in UNION {[1..k -> TradeSet(ticks)] : k \in 0..n} : TimeOrdered(d)}

PureTicks == 0..(MaxSec * SubPerSec - 1)
PureTapes == Tapes(PureTicks, MaxTrades)
PureSeries == {Resample1s(d) : d \in PureTapes}

\* ---- the raw files: what read_csv finds in RAW_DIR ----

\* the ticks of calendar day d
FileTicks(d) == ((d - 1) * SecPerDay * SubPerSec)..(d * SecPerDay * SubPerSec - 1)

\* A raw timestamp string: the separator between its date and its time, and
\* the instant it spells.  BitMEX writes 'D'; 'T' stands for a row that the
\* fixed format does not match.
BitmexRows(d) ==
    [timestamp : [sep : {"D", "T"}, tick : FileTicks(d)], price : Prices]
\* bitmex_XBTUSD_<d>.csv: the XBTUSD rows of the dump of day d.  In the
\* multi-day run a file holds no trade or one; tapes of several trades are
\* resampled and aligned under SpecResample.
BitmexFile(d) == {<<>>} \cup {<<r>> : r \in BitmexRows(d)}

\* Binance timestamps were written by to_csv as ISO strings (' '); '?' stands
\* for a string no parser accepts.  The price column is named p.
BinanceRows(d) ==
    [timestamp : [sep : {" ", "?"}, tick : FileTicks(d)], p : Prices]
\* binance_<d>.csv: download_binance_btcusdt writes no file without a trade
BinanceFile(d) == {<<r>> : r \in BinanceRows(d)}

\* .str.replace('D', ' ')
StrReplaceD(ts) == [ts EXCEPT !.sep = IF @ = "D" THEN " " ELSE @]
\* format='%Y-%m-%d %H:%M:%S.%f'
MatchesFormat(ts) == ts.sep = " "
BitmexParses(rows) ==
    \A k \in DOMAIN rows : MatchesFormat(StrReplaceD(rows[k].timestamp))
\* df_bmx after set_index('timestamp'): (instant, price)
ParseBitmex(rows) ==
    [k \in DOMAIN rows |->
        [timestamp |-> rows[k].timestamp.tick, price |-> rows[k].price]]

\* pd.to_datetime(..., utc=True) without a format takes ' ' and 'T'
BinanceParses(rows) == \A k \in DOMAIN rows : rows[k].timestamp.sep \in {" ", "T"}
\* df_bnc after set_index('timestamp') and price = p.astype(float)
ParseBinance(rows) ==
    [k \in DOMAIN rows |->
        [timestamp |-> rows[k].timestamp.tick, price |-> rows[k].p]]

\* ---- the per-day artifacts: to_csv and read_csv ----
Header == <<"timestamp", "futures_price", "spot_price", "basis">>

\* DataFrame.to_csv: the header line, then one line per row, index first
ToCsv(frame) ==
    [header |-> Header,
     lines |-> [k \in DOMAIN frame |->
                   <<frame[k].timestamp, frame[k].futures_price,
                     frame[k].spot_price, frame[k].basis>>]]

Column(file, name) == CHOOSE c \in DOMAIN file.header : file.header[c] = name

\* pd.read_csv(f, parse_dates=['timestamp'], index_col='timestamp')
ReadCsv(file) ==
    [k \in DOMAIN file.lines |->
        [timestamp |-> file.lines[k][Column(file, "timestamp")],
         futures_price |-> file.lines[k][Column(file, "futures_price")],
         spot_price |-> file.lines[k][Column(file, "spot_price")],
         basis |-> file.lines[k][Column(file, "basis")]]]

\* a directory maps the dates of the files it holds to their contents
WriteFile(dir, d, file) ==
    [x \in (DOMAIN dir) \cup {d} |-> IF x = d THEN file ELSE dir[x]]

\* the artifacts an earlier run may have written for each day
EarlierArtifacts ==
    [d \in Days |->
        {ToCsv(DailyBasis(Resample1s(ParseBitmex(f)), Resample1s(ParseBinance(s)))) :
            f \in {x \in BitmexFile(d) : BitmexParses(x)},
            s \in {x \in BinanceFile(d) : BinanceParses(x)}}]

RECURSIVE EarlierFiles(_)
\* what the files of the dates D that an earlier run left may hold
EarlierFiles(D) ==
    IF D = {} THEN {<<>>}
    ELSE {WriteFile(f, Min(D), a) :
             f \in EarlierFiles(D \ {Min(D)}), a \in EarlierArtifacts[Min(D)]}

\* PROCESSED_DIR: the files this run wrote and the files left from before
Directory(written, left) ==
    [x \in (DOMAIN written) \cup (DOMAIN left) |->
        IF x \in DOMAIN written THEN written[x] ELSE left[x]]

\* glob() lists the files in an order of the file system's choosing
MutLoadFullBasis(dir) ==
    LET files == Descending(DOMAIN dir)
    IN  Flatten([k \in DOMAIN files |-> ReadCsv(dir[files[k]])])
\* load_full_basis: sorted(glob('basis_*.csv')), read each, pd.concat
LoadFullBasis(dir) ==
    LET files == Ascending(DOMAIN dir)
    IN  Flatten([k \in DOMAIN files |-> ReadCsv(dir[files[k]])])

\* ---- process_and_save_daily_basis ----

\* without the check, zip() stops at the shorter list
MutCountsMatch(bf, nf) == TRUE
\* len(bitmex_files) != len(binance_files) raises
CountsMatch(bf, nf) == Len(bf) = Len(nf)

\* sorted(glob(...)) of the raw files
MutSortedGlob(dates) == Descending(dates)
SortedGlob(dates) == Ascending(dates)

\* zip(bitmex_files, binance_files)
ZipLen == Min({Len(bitmex_files), Len(binance_files)})

NoLocals == futures = <<>> /\ spot = <<>> /\ daily_df = <<>>

Start ==
    /\ pc = "idle"
    /\ CountsMatch(SortedGlob(raw_bitmex), SortedGlob(raw_binance))
    /\ bitmex_files' = SortedGlob(raw_bitmex)
    /\ binance_files' = SortedGlob(raw_binance)
    /\ saved_paths' = <<>>
    /\ pc' = "bmx"
    /\ UNCHANGED <<exc, i, futures, spot, daily_df, daily_dfs>>
    /\ UNCHANGED <<rvars, fsvars, lvars, bvars>>

StartRaise ==
    /\ pc = "idle"
    /\ ~CountsMatch(SortedGlob(raw_bitmex), SortedGlob(raw_binance))
    /\ bitmex_files' = SortedGlob(raw_bitmex)
    /\ binance_files' = SortedGlob(raw_binance)
    /\ pc' = "fatal"
    /\ exc' = "Mismatch in number of BitMEX and Binance files"
    /\ UNCHANGED <<i, saved_paths, futures, spot, daily_df, daily_dfs>>
    /\ UNCHANGED <<rvars, fsvars, lvars, bvars>>

\* lines 34-39: read the futures file of the pair, parse, resample
ReadBitmex ==
    /\ pc = "bmx"
    /\ i < ZipLen
    /\ \E raw \in BitmexFile(bitmex_files[i + 1]) :
          /\ BitmexParses(raw)
          /\ futures' = Resample1s(ParseBitmex(raw))
    /\ spot' = <<>>
    /\ daily_df' = <<>>
    /\ pc' = "bnc"
    /\ UNCHANGED <<exc, bitmex_files, binance_files, i, saved_paths, daily_dfs>>
    /\ UNCHANGED <<rvars, fsvars, lvars, bvars>>

ReadBitmexRaise ==
    /\ pc = "bmx"
    /\ i < ZipLen
    /\ \E raw \in BitmexFile(bitmex_files[i + 1]) : ~BitmexParses(raw)
    /\ pc' = "raised"
    /\ exc' = "to_datetime"
    /\ futures' = <<>> /\ spot' = <<>> /\ daily_df' = <<>>
    /\ UNCHANGED <<bitmex_files, binance_files, i, saved_paths, daily_dfs>>
    /\ UNCHANGED <<rvars, fsvars, lvars, bvars>>

\* lines 42-58: read the spot file of the pair, parse, resample, combine,
\* save the day under the date of the futures file
ReadBinanceSave ==
    /\ pc = "bnc"
    /\ \E raw \in BinanceFile(binance_files[i + 1]) :
          /\ BinanceParses(raw)
          /\ spot' = Resample1s(ParseBinance(raw))
    /\ daily_df' = DailyBasis(futures, spot')
    /\ processed' = WriteFile(processed, bitmex_files[i + 1], ToCsv(daily_df'))
    /\ earlier' = earlier \ {bitmex_files[i + 1]}
    /\ saved_paths' = Append(saved_paths, bitmex_files[i + 1])
    /\ daily_dfs' = Append(daily_dfs, daily_df')
    /\ i' = i + 1
    /\ pc' = "bmx"
    /\ UNCHANGED <<exc, bitmex_files, binance_files, futures>>
    /\ UNCHANGED <<raw_bitmex, raw_binance>>
    /\ UNCHANGED <<rvars, lvars, bvars>>

ReadBinanceRaise ==
    /\ pc = "bnc"
    /\ \E raw \in BinanceFile(binance_files[i + 1]) : ~BinanceParses(raw)
    /\ pc' = "raised"
    /\ exc' = "to_datetime"
    /\ futures' = <<>> /\ spot' = <<>> /\ daily_df' = <<>>
    /\ UNCHANGED <<bitmex_files, binance_files, i, saved_paths, daily_dfs>>
    /\ UNCHANGED <<rvars, fsvars, lvars, bvars>>

\* line 60: return saved_paths
Return ==
    /\ pc = "bmx"
    /\ i = ZipLen
    /\ pc' = "done"
    /\ futures' = <<>> /\ spot' = <<>> /\ daily_df' = <<>>
    /\ UNCHANGED <<exc, bitmex_files, binance_files, i, saved_paths, daily_dfs>>
    /\ UNCHANGED <<rvars, fsvars, lvars, bvars>>

\* load_full_basis, called once the run has returned or raised; a file left
\* by an earlier run holds what that run wrote
Load ==
    /\ pc \in {"done", "raised", "fatal"}
    /\ ~loaded
    /\ \E left \in EarlierFiles(earlier) :
          full_basis' = LoadFullBasis(Directory(processed, left))
    /\ loaded' = TRUE
    /\ UNCHANGED <<rvars, fsvars, pvars, bvars>>

\* ---- initial values of the parts a specification leaves alone ----
ResamplerOff ==
    rpc = "off" /\ df = <<>> /\ resampled = <<>> /\ reresampled = <<>>
PipelineOff ==
    /\ raw_bitmex = {} /\ raw_binance = {}
    /\ processed = <<>> /\ earlier = {}
    /\ pc = "off" /\ exc = "" /\ bitmex_files = <<>> /\ binance_files = <<>>
    /\ i = 0 /\ saved_paths = <<>> /\ daily_dfs = <<>>
    /\ loaded = FALSE /\ full_basis = <<>>
DownloadOff ==
    bpc = "off" /\ book = <<>> /\ start = 0 /\ trades = <<>>

\* ---- the multi-day run ----
Init ==
    /\ raw_bitmex \in SUBSET Days
    /\ raw_binance \in SUBSET Days
    /\ processed = <<>>
    /\ earlier \in {D \in SUBSET Days : Cardinality(D) <= MaxEarlier}
    /\ pc = "idle" /\ exc = "" /\ bitmex_files = <<>> /\ binance_files = <<>>
    /\ i = 0 /\ saved_paths = <<>> /\ daily_dfs = <<>>
    /\ NoLocals
    /\ loaded = FALSE /\ full_basis = <<>>
    /\ ResamplerOff /\ DownloadOff

Next ==
    \/ Start
    \/ StartRaise
    \/ ReadBitmex
    \/ ReadBitmexRaise
    \/ ReadBinanceSave
    \/ ReadBinanceRaise
    \/ Return
    \/ Load

Spec == Init /\ [][Next]_vars

\* ---- the resampler and the aligner on their own ----
InitResample ==
    /\ rpc = "trades"
    /\ df \in PureTapes
    /\ resampled = <<>> /\ reresampled = <<>>
    /\ NoLocals
    /\ PipelineOff /\ DownloadOff

\* line 38, line 47
Resample ==
    /\ rpc = "trades"
    /\ resampled' = Resample1s(df)
    /\ rpc' = "resampled"
    /\ UNCHANGED <<df, reresampled>>
    /\ UNCHANGED <<fsvars, pvars, lvars, bvars>>

\* the same cadence applied to the resampled series
Reresample ==
    /\ rpc = "resampled"
    /\ reresampled' = Resample1s(resampled)
    /\ rpc' = "reresampled"
    /\ UNCHANGED <<df, resampled>>
    /\ UNCHANGED <<fsvars, pvars, lvars, bvars>>

\* lines 51-52 on the resampled series and any resampled series of the other side
Align ==
    /\ rpc = "reresampled"
    /\ \E other \in PureSeries :
          /\ futures' = resampled
          /\ spot' = other
          /\ daily_df' = DailyBasis(resampled, other)
    /\ rpc' = "aligned"
    /\ df' = <<>> /\ reresampled' = <<>>
    /\ UNCHANGED resampled
    /\ UNCHANGED <<pc, exc, bitmex_files, binance_files, i, saved_paths, daily_dfs>>
    /\ UNCHANGED <<fsvars, lvars, bvars>>

NextResample == Resample \/ Reresample \/ Align

SpecResample == InitResample /\ [][NextResample]_vars

\* ---- download_binance_btcusdt: the aggTrades pagination ----

\* the requested day is the milliseconds 0..DayMs-1; DayMs is the first
\* millisecond of the next day
DayStart == 0
DayEnd == DayStart + DayMs

\* the trades the exchange holds, oldest first; a is the aggregate trade id
Books ==
    {b \in UNION {[1..n -> [a : 1..MaxBook, T : DayStart..DayEnd]] : n \in 0..MaxBook} :
        /\ \A k \in DOMAIN b : b[k].a = k
        /\ \A k \in 1..(Len(b) - 1) : b[k].T <= b[k + 1].T}

FirstN(s, n) == IF Len(s) <= n THEN s ELSE SubSeq(s, 1, n)

InWindow(t, from, to) == from <= t.T /\ t.T <= to

\* GET /api/v3/aggTrades {startTime, endTime, limit}: the oldest trades with
\* startTime <= T <= endTime, at most limit of them
Response(b, from, to) ==
    LET hit == {k \in DOMAIN b : InWindow(b[k], from, to)}
        idx == Ascending(hit)
    IN  FirstN([k \in DOMAIN idx |-> b[idx[k]]], Limit)

\* lines 93-105, a batch with trades
RequestBatch ==
    /\ bpc = "loop"
    /\ start < DayEnd
    /\ Response(book, start, DayEnd) # <<>>
    /\ trades' = trades \o Response(book, start, DayEnd)
    /\ start' = Response(book, start, DayEnd)[Len(Response(book, start, DayEnd))].T + 1
    /\ UNCHANGED <<bpc, book>>
    /\ UNCHANGED <<rvars, fsvars, pvars, lvars>>

\* lines 99-101: an empty batch breaks the loop
RequestEmpty ==
    /\ bpc = "loop"
    /\ start < DayEnd
    /\ Response(book, start, DayEnd) = <<>>
    /\ bpc' = "collected"
    /\ UNCHANGED <<book, start, trades>>
    /\ UNCHANGED <<rvars, fsvars, pvars, lvars>>

\* lines 96-97: a status other than 200 raises
RequestFails ==
    /\ bpc = "loop"
    /\ start < DayEnd
    /\ bpc' = "raised"
    /\ UNCHANGED <<book, start, trades>>
    /\ UNCHANGED <<rvars, fsvars, pvars, lvars>>

\* line 93: the loop ends once start reaches end
LoopEnds ==
    /\ bpc = "loop"
    /\ start >= DayEnd
    /\ bpc' = "collected"
    /\ UNCHANGED <<book, start, trades>>
    /\ UNCHANGED <<rvars, fsvars, pvars, lvars>>

\* lines 107-113: the frame of the collected trades is written
SaveTrades ==
    /\ bpc = "collected"
    /\ trades # <<>>
    /\ bpc' = "saved"
    /\ UNCHANGED <<book, start, trades>>
    /\ UNCHANGED <<rvars, fsvars, pvars, lvars>>

\* line 108: a frame without trades has no column T
SaveNothing ==
    /\ bpc = "collected"
    /\ trades = <<>>
    /\ bpc' = "raised"
    /\ UNCHANGED <<book, start, trades>>
    /\ UNCHANGED <<rvars, fsvars, pvars, lvars>>

InitDownload ==
    /\ bpc = "loop"
    /\ book \in Books
    /\ start = DayStart
    /\ trades = <<>>
    /\ ResamplerOff /\ NoLocals /\ PipelineOff

NextDownload ==
    \/ RequestBatch
    \/ RequestEmpty
    \/ RequestFails
    \/ LoopEnds
    \/ SaveTrades
    \/ SaveNothing

SpecDownload == InitDownload /\ [][NextDownload]_vars

\* ---- properties ----

SecondOf(t) == t - (t % SubPerSec)
RowsOf(frame) == {frame[k] : k \in DOMAIN frame}
Increasing(s) == \A k \in 1..(Len(s) - 1) : s[k] < s[k + 1]

\* C1: for a non-empty tape ordered by time, the resampled series has exactly
\* one entry for each second from the second of the first trade to the second
\* of the last trade, and the value of a second is the price of the latest
\* trade that falls in that second or before it.
C1_ResamplerContract ==
    (rpc \in {"resampled", "reresampled"} /\ df # <<>>) =>
        LET lo == SecondOf(df[1].timestamp)
            hi == SecondOf(df[Len(df)].timestamp)
            seconds == {t \in lo..hi : t % SubPerSec = 0}
        IN  /\ TsSet(resampled) = seconds
            /\ Len(resampled) = Cardinality(seconds)
            /\ \A k \in DOMAIN resampled :
                  LET upto == {j \in DOMAIN df :
                                  SecondOf(df[j].timestamp) <= resampled[k].timestamp}
                  IN  /\ upto # {}
                      /\ resampled[k].price = df[Max(upto)].price

\* a second without a trade between two trades of different prices, and two
\* trades of different prices in one second
C1_Witness ==
    /\ rpc = "resampled"
    /\ Len(df) = 2
    /\ df[1].price # df[2].price
    /\ Len(resampled) = 3
    /\ resampled[2].price = df[1].price

\* C9: resampling the resampled series at the same cadence changes nothing.
C9_Idempotent ==
    (rpc = "reresampled" /\ df # <<>>) => reresampled = resampled

C9_Witness ==
    /\ rpc = "reresampled"
    /\ Len(resampled) = 3
    /\ resampled[1].price # resampled[3].price
    /\ reresampled = resampled

\* C2: the timestamps of the day's rows are those present in both resampled
\* series, each once; a row carries the two prices of its second and
\* basis = futures_price - spot_price.
C2_AlignerContract ==
    (rpc = "aligned") =>
        /\ TsSet(daily_df) = TsSet(futures) \cap TsSet(spot)
        /\ Len(daily_df) = Cardinality(TsSet(futures) \cap TsSet(spot))
        /\ \A k \in DOMAIN daily_df :
              /\ daily_df[k].futures_price = ValueAt(futures, daily_df[k].timestamp)
              /\ daily_df[k].spot_price = ValueAt(spot, daily_df[k].timestamp)
              /\ daily_df[k].basis =
                    daily_df[k].futures_price - daily_df[k].spot_price

\* a second of the futures series that the spot series lacks, and a row left
\* whose basis is not zero
C2_Witness ==
    /\ rpc = "aligned"
    /\ TsSet(futures) \ TsSet(spot) # {}
    /\ TsSet(spot) \ TsSet(futures) # {}
    /\ \E k \in DOMAIN daily_df : daily_df[k].basis > 0

\* C3: with unequal numbers of futures and spot files the run raises the
\* mismatch error and does nothing else: no pair is read, no result is
\* produced, no artifact is written.
C3_MismatchIsFatal ==
    (Cardinality(raw_bitmex) # Cardinality(raw_binance)) =>
        /\ pc \in {"idle", "fatal"}
        /\ pc = "fatal" => exc = "Mismatch in number of BitMEX and Binance files"
        /\ i = 0
        /\ saved_paths = <<>>
        /\ daily_dfs = <<>>
        /\ processed = <<>>
        /\ NoLocals

\* the error raised although the shorter list has a file to pair
C3_Witness ==
    /\ pc = "fatal"
    /\ raw_binance # {}
    /\ Cardinality(raw_bitmex) > Cardinality(raw_binance)

\* C4: every pair of files the run processes is of one calendar day, and the
\* artifact is named for it.
C4_SameDayPairs ==
    \A k \in DOMAIN saved_paths :
        /\ bitmex_files[k] = binance_files[k]
        /\ saved_paths[k] = bitmex_files[k]

\* C5: after a day raised, no later day is processed and loading the
\* artifacts returns no row of the aborted run.
C5_AbortLeavesNoSeries ==
    (pc = "raised") =>
        /\ Len(daily_dfs) = i
        /\ loaded => \A k \in DOMAIN daily_dfs : RowsOf(daily_dfs[k]) \cap RowsOf(full_basis) = {}

\* the results of the run, by the date of their artifact
ResultsByDate ==
    LET dates == Ascending(Range(saved_paths))
    IN  Flatten([k \in DOMAIN dates |->
            daily_dfs[CHOOSE j \in DOMAIN saved_paths : saved_paths[j] = dates[k]]])

C7_Ordering ==
    /\ Increasing(saved_paths)
    /\ \A k \in 1..(Len(bitmex_files) - 1) : bitmex_files[k] < bitmex_files[k + 1]
    /\ loaded => Increasing([k \in DOMAIN full_basis |-> full_basis[k].timestamp])

\* rows of two days of the run and of an earlier artifact, loaded
C7_Witness ==
    /\ pc = "done" /\ loaded
    /\ Len(saved_paths) = 2
    /\ Len(full_basis) >= 2
    /\ daily_dfs[1] # <<>> /\ daily_dfs[2] # <<>>

\* C8: a day whose two series share no timestamp gives an empty result, its
\* artifact is written all the same (the header alone), the loop goes on; the
\* only error a day raises is a timestamp that does not parse.
C8_EmptyAlignment ==
    /\ (pc = "bmx" /\ i >= 1 /\ TsSet(futures) \cap TsSet(spot) = {}) =>
          /\ daily_df = <<>>
          /\ daily_dfs[i] = <<>>
          /\ Len(saved_paths) = i
          /\ saved_paths[i] \in DOMAIN processed
          /\ processed[saved_paths[i]] = ToCsv(<<>>)
    /\ pc = "raised" => exc = "to_datetime"

\* a day of the same date on both sides, with trades on both sides in
\* different seconds, and the next day processed after it
C8_Witness ==
    /\ pc = "bmx" /\ i = 2
    /\ bitmex_files = binance_files
    /\ daily_dfs[1] = <<>>
    /\ processed[saved_paths[1]] = ToCsv(<<>>)
    /\ futures # <<>> /\ spot # <<>>
    /\ daily_df # <<>>

\* C10: when the download has collected, every trade of the requested day is
\* in the collected list exactly once.
C10_EveryTradeOnce ==
    (bpc \in {"collected", "saved"}) =>
        \A k \in DOMAIN book :
            (DayStart <= book[k].T /\ book[k].T < DayEnd) =>
                Cardinality({j \in DOMAIN trades : trades[j].a = book[k].a}) = 1

====
